---- MODULE Spec2Model ----
(***************************************************************************)
(* Model of ai_news.py: one run of main().  The run fetches the BBC RSS     *)
(* feed, looks for the first item whose page has an <article> element,      *)
(* sends title, description and body to the chat completion endpoint,       *)
(* turns the first completion into speech and plays the audio file.         *)
(*                                                                          *)
(* The outside world (the feed document, the article pages, the working     *)
(* directory) is fixed in Init; the answers of the OpenAI endpoints and of  *)
(* the feed request are chosen when the call is made.  An optional value    *)
(* (a child tag that may be absent, soup.find returning None) is a sequence *)
(* of length 0 or 1.  Python indexes from 0 and so does counter; TLA+       *)
(* sequences index from 1, hence articles[counter + 1].                     *)
(***************************************************************************)
EXTENDS Naturals, Sequences, FiniteSets, TLC

VARIABLES
    rss,            \* world: the items of the feed document, in feed order
    pages,          \* world: pages[i] is the answer to GET articles[i].link.text
    cwd,            \* world: the working directory the program was started from
    fs,             \* world: the set of files on disk, each <<directory, name, content>>
    pc,             \* position of main()
    err,            \* the uncaught exception that ended the run, "" if none
    articles,       \* get_headlines: list(soup.find_all('item'))
    found_article,  \* get_headlines: loop flag
    counter,        \* get_headlines: loop index (0-based)
    title,          \* main: first element returned by get_headlines
    description,    \* main: second element returned by get_headlines
    body,           \* get_headlines / main: the article text
    result,         \* history: what get_headlines returned, None before it returns
    inputs,         \* AIChat.inputs
    request,        \* the arguments of the chat completion request, <<>> before it is sent
    choices,        \* response.choices
    path,           \* TTS.path, <<>> before TTS is constructed
    stdout,         \* lines printed
    log             \* history: the external calls made so far, in order

vars == <<rss, pages, cwd, fs, pc, err, articles, found_article, counter, title,
          description, body, result, inputs, request, choices, path, stdout, log>>

\* ---------------------------------------------------------------- bounds
MaxItems == 2
MaxChoices == 2

\* ---------------------------------------------------------------- values
None == <<>>
Some(x) == <<x>>
Text(opt) == opt[1]

Titles == {"", "A"}
Descriptions == {"D"}
Bodies == {"", "B"}
Completions == {"S1", "S2"}

ScriptDir == "script_dir"
OtherDir == "other_dir"

\* An <item> of the feed: each child tag is present or absent.
Items ==
    [title : {None} \cup {Some(t) : t \in Titles},
     description : {None} \cup {Some(d) : d \in Descriptions},
     link : {None, Some("url")}]

\* The answer to requests.get(link): the request raises, or it returns a
\* document whose <article> element is absent or holds a text.
PageResponses ==
    {[raises |-> TRUE, article |-> None]}
      \cup {[raises |-> FALSE, article |-> a] : a \in {None} \cup {Some(b) : b \in Bodies}}

\* The page of an item without a link is never requested.
NeverRequested == [raises |-> FALSE, article |-> None]

SeqsUpTo(S, n) == UNION {[1..k -> S] : k \in 0..n}

\* ---------------------------------------------------------------- AIChat
SystemPrompt == "The user will input text taken from a BBC News article ..."
model == "gpt-3.5-turbo"
temperature == "0.5"
num_of_responses == 1

AIChatInit == <<[role |-> "system", content |-> SystemPrompt]>>

add_input(self_inputs, msg) == Append(self_inputs, msg)

run_ai_request(self_inputs) ==
    [model |-> model, messages |-> self_inputs,
     temperature |-> temperature, n |-> num_of_responses]

\* ---------------------------------------------------------------- TTS
TTSPath(filename) == <<ScriptDir, filename \o ".mp3">>
PathName(p) == p[2]
\* playsound is handed a bare file name, which the OS resolves against cwd.
Resolve(dir, name) == <<dir, name>>
PlayTarget(p) == Resolve(cwd, PathName(p))
FileAt(p) == {f \in fs : f[1] = p[1] /\ f[2] = p[2]}

\* ---------------------------------------------------------------- Init
Init ==
    /\ rss \in SeqsUpTo(Items, MaxItems)
    /\ pages \in [1..Len(rss) -> PageResponses]
    /\ \A i \in 1..Len(rss) : rss[i].link = None => pages[i] = NeverRequested
    /\ cwd \in {ScriptDir, OtherDir}
    /\ fs = {}
    /\ pc = "get_headlines"
    /\ err = ""
    /\ articles = <<>>
    /\ found_article = FALSE
    /\ counter = 0
    /\ title = ""
    /\ description = ""
    /\ body = ""
    /\ result = None
    /\ inputs = <<>>
    /\ request = <<>>
    /\ choices = <<>>
    /\ path = <<>>
    /\ stdout = <<>>
    /\ log = <<>>

Raise(e) == pc' = "failed" /\ err' = e

\* ---------------------------------------------------------------- get_headlines
\* soup = self._get_soup(self.url, "xml") raises: nothing catches it.
FeedRaises ==
    /\ pc = "get_headlines"
    /\ log' = Append(log, <<"feed">>)
    /\ Raise("RequestException")
    /\ UNCHANGED <<rss, pages, result, cwd, fs, articles, found_article, counter, title,
                   description, body, inputs, request, choices, path, stdout>>

\* The feed request returns; the items are isolated and the loop starts.
FeedFetched ==
    /\ pc = "get_headlines"
    /\ log' = Append(log, <<"feed">>)
    /\ articles' = rss
    /\ found_article' = FALSE
    /\ counter' = 0
    /\ pc' = "loop"
    /\ UNCHANGED <<rss, pages, result, cwd, fs, err, title, description, body, inputs,
                   request, choices, path, stdout>>

\* Mutant of ArticleIndexError: the loop also stops when the list runs out
\* (while not found_article and counter < len(articles)) and main goes on.
ArticleIndexErrorFallsThrough ==
    /\ pc = "loop" /\ ~found_article
    /\ counter >= Len(articles)
    /\ pc' = "ai_chat"
    /\ UNCHANGED <<rss, pages, result, cwd, fs, err, articles, found_article, counter,
                   title, description, body, inputs, request, choices, path, stdout, log>>

\* One pass of the while loop whose articles[counter] is out of range: the
\* IndexError is not an AttributeError, so it leaves get_headlines.
ArticleIndexError ==
    /\ pc = "loop" /\ ~found_article
    /\ counter >= Len(articles)
    /\ Raise("IndexError")
    /\ UNCHANGED <<rss, pages, result, cwd, fs, articles, found_article, counter, title,
                   description, body, inputs, request, choices, path, stdout, log>>

\* articles[counter].link is None: .text raises AttributeError before any
\* request is made; the handler prints and advances.
ArticleNoLink ==
    /\ pc = "loop" /\ ~found_article
    /\ counter < Len(articles)
    /\ articles[counter + 1].link = None
    /\ stdout' = Append(stdout, "Article not found, trying next article.")
    /\ counter' = counter + 1
    /\ UNCHANGED <<rss, pages, result, cwd, fs, pc, err, articles, found_article, title,
                   description, body, inputs, request, choices, path, log>>

\* requests.get on the article's link raises: not an AttributeError.
ArticleFetchRaises ==
    /\ pc = "loop" /\ ~found_article
    /\ counter < Len(articles)
    /\ articles[counter + 1].link # None
    /\ pages[counter + 1].raises
    /\ log' = Append(log, <<"page", counter + 1>>)
    /\ Raise("RequestException")
    /\ UNCHANGED <<rss, pages, result, cwd, fs, articles, found_article, counter, title,
                   description, body, inputs, request, choices, path, stdout>>

\* Mutant of ArticleNoBody: the handler forgets counter += 1.
ArticleNoBodyRetries ==
    /\ pc = "loop" /\ ~found_article
    /\ counter < Len(articles)
    /\ articles[counter + 1].link # None
    /\ ~pages[counter + 1].raises
    /\ pages[counter + 1].article = None
    /\ log' = Append(log, <<"page", counter + 1>>)
    /\ stdout' = Append(stdout, "Article not found, trying next article.")
    /\ UNCHANGED <<rss, pages, result, cwd, fs, pc, err, articles, found_article,
                   counter, title, description, body, inputs, request, choices, path>>

\* soup.find("article") is None: .get_text() raises AttributeError; the
\* handler prints and advances.
ArticleNoBody ==
    /\ pc = "loop" /\ ~found_article
    /\ counter < Len(articles)
    /\ articles[counter + 1].link # None
    /\ ~pages[counter + 1].raises
    /\ pages[counter + 1].article = None
    /\ log' = Append(log, <<"page", counter + 1>>)
    /\ stdout' = Append(stdout, "Article not found, trying next article.")
    /\ counter' = counter + 1
    /\ UNCHANGED <<rss, pages, result, cwd, fs, pc, err, articles, found_article, title,
                   description, body, inputs, request, choices, path>>

\* soup.find("article").get_text() returns a string, whatever its length.
ArticleFound ==
    /\ pc = "loop" /\ ~found_article
    /\ counter < Len(articles)
    /\ articles[counter + 1].link # None
    /\ ~pages[counter + 1].raises
    /\ pages[counter + 1].article # None
    /\ log' = Append(log, <<"page", counter + 1>>)
    /\ body' = Text(pages[counter + 1].article)
    /\ found_article' = TRUE
    /\ UNCHANGED <<rss, pages, result, cwd, fs, pc, err, articles, counter, title,
                   description, inputs, request, choices, path, stdout>>

\* The item whose title and description get_headlines returns.
HeadlineItem == articles[1]

\* return articles[0].title.text, articles[0].description.text, body
\* with a child tag of articles[0] absent: AttributeError outside the try.
ReturnRaises ==
    /\ pc = "loop" /\ found_article
    /\ HeadlineItem.title = None \/ HeadlineItem.description = None
    /\ Raise("AttributeError")
    /\ UNCHANGED <<rss, pages, result, cwd, fs, articles, found_article, counter, title,
                   description, body, inputs, request, choices, path, stdout, log>>

\* The return, and main's title, description, body = news.get_headlines().
ReturnHeadlines ==
    /\ pc = "loop" /\ found_article
    /\ HeadlineItem.title # None /\ HeadlineItem.description # None
    /\ result' = Some(<<Text(HeadlineItem.title), Text(HeadlineItem.description), body>>)
    /\ title' = result'[1][1]
    /\ description' = result'[1][2]
    /\ pc' = "ai_chat"
    /\ UNCHANGED <<rss, pages, cwd, fs, err, articles, found_article, counter,
                   body, inputs, request, choices, path, stdout, log>>

\* ---------------------------------------------------------------- main: chat
TitleTurn(t) == [role |-> "user", content |-> "Article Title: " \o t]
DescriptionTurn(d) == [role |-> "user", content |-> "Article Description: " \o d]
\* Mutant of BodyTurn: the label of the previous line, copied.
BodyTurnWrongLabel(b) == [role |-> "user", content |-> "Article Description: " \o b]
BodyTurn(b) == [role |-> "user", content |-> "Article Body: " \o b]

\* ai_chat = AIChat(client)
NewAIChat ==
    /\ pc = "ai_chat"
    /\ inputs' = AIChatInit
    /\ pc' = "add_title"
    /\ UNCHANGED <<rss, pages, result, cwd, fs, err, articles, found_article, counter, title,
                   description, body, request, choices, path, stdout, log>>

AddTitle ==
    /\ pc = "add_title"
    /\ inputs' = add_input(inputs, TitleTurn(title))
    /\ pc' = "add_description"
    /\ UNCHANGED <<rss, pages, result, cwd, fs, err, articles, found_article, counter, title,
                   description, body, request, choices, path, stdout, log>>

\* Mutant of AddDescription: the description is never added.
AddDescriptionSkipped ==
    /\ pc = "add_description"
    /\ pc' = "add_body"
    /\ UNCHANGED <<rss, pages, result, cwd, fs, err, articles, found_article, counter,
                   title, description, body, inputs, request, choices, path, stdout, log>>

AddDescription ==
    /\ pc = "add_description"
    /\ inputs' = add_input(inputs, DescriptionTurn(description))
    /\ pc' = "add_body"
    /\ UNCHANGED <<rss, pages, result, cwd, fs, err, articles, found_article, counter, title,
                   description, body, request, choices, path, stdout, log>>

AddBody ==
    /\ pc = "add_body"
    /\ inputs' = add_input(inputs, BodyTurn(body))
    /\ pc' = "run_ai"
    /\ UNCHANGED <<rss, pages, result, cwd, fs, err, articles, found_article, counter, title,
                   description, body, request, choices, path, stdout, log>>

\* response = ai_chat.run_ai(): the endpoint raises.
RunAIRaises ==
    /\ pc = "run_ai"
    /\ request' = run_ai_request(inputs)
    /\ log' = Append(log, <<"chat", inputs>>)
    /\ Raise("APIError")
    /\ UNCHANGED <<rss, pages, result, cwd, fs, articles, found_article, counter, title,
                   description, body, inputs, choices, path, stdout>>

\* response = ai_chat.run_ai() returns; every choice is printed.  A choice is
\* modelled by its message.content.
RunAI ==
    /\ pc = "run_ai"
    /\ request' = run_ai_request(inputs)
    /\ log' = Append(log, <<"chat", inputs>>)
    /\ \E cs \in SeqsUpTo(Completions, MaxChoices) :
          /\ choices' = cs
          /\ stdout' = stdout \o cs
    /\ pc' = "tts"
    /\ UNCHANGED <<rss, pages, result, cwd, fs, err, articles, found_article, counter, title,
                   description, body, inputs, path>>

\* ---------------------------------------------------------------- main: speech
\* Mutant of SpokenChoice: the last completion instead of the first.
SpokenChoiceLast(cs) == cs[Len(cs)]

\* The completion main hands to create_audio.
SpokenChoice(cs) == cs[1]

\* tts = TTS(client)
NewTTS ==
    /\ pc = "tts"
    /\ path' = TTSPath("news")
    /\ pc' = "create_audio"
    /\ UNCHANGED <<rss, pages, result, cwd, fs, err, articles, found_article, counter, title,
                   description, body, inputs, request, choices, stdout, log>>

\* response.choices[0] on an empty list.
CreateAudioIndexError ==
    /\ pc = "create_audio"
    /\ choices = <<>>
    /\ Raise("IndexError")
    /\ UNCHANGED <<rss, pages, result, cwd, fs, articles, found_article, counter, title,
                   description, body, inputs, request, choices, path, stdout, log>>

\* Mutant of CreateAudioRaises: the exception is swallowed and main goes on.
CreateAudioRaisesSwallowed ==
    /\ pc = "create_audio"
    /\ choices # <<>>
    /\ log' = Append(log, <<"speech", SpokenChoice(choices)>>)
    /\ pc' = "sleep"
    /\ UNCHANGED <<rss, pages, result, cwd, fs, err, articles, found_article, counter,
                   title, description, body, inputs, request, choices, path, stdout>>

\* self.client.audio.speech.create raises.
CreateAudioRaises ==
    /\ pc = "create_audio"
    /\ choices # <<>>
    /\ log' = Append(log, <<"speech", SpokenChoice(choices)>>)
    /\ Raise("APIError")
    /\ UNCHANGED <<rss, pages, result, cwd, fs, articles, found_article, counter, title,
                   description, body, inputs, request, choices, path, stdout>>

\* The speech is created and response.stream_to_file(self.path) writes it.
CreateAudio ==
    /\ pc = "create_audio"
    /\ choices # <<>>
    /\ log' = Append(log, <<"speech", SpokenChoice(choices)>>)
    /\ fs' = (fs \ FileAt(path)) \cup {<<path[1], path[2], SpokenChoice(choices)>>}
    /\ pc' = "sleep"
    /\ UNCHANGED <<rss, pages, result, cwd, err, articles, found_article, counter, title,
                   description, body, inputs, request, choices, path, stdout>>

\* sleep(0.5)
Sleep ==
    /\ pc = "sleep"
    /\ pc' = "play_audio"
    /\ UNCHANGED <<rss, pages, result, cwd, fs, err, articles, found_article, counter, title,
                   description, body, inputs, request, choices, path, stdout, log>>

\* playsound(self.path.name) finds no such file in the working directory.
PlayAudioRaises ==
    /\ pc = "play_audio"
    /\ FileAt(PlayTarget(path)) = {}
    /\ log' = Append(log, <<"play", PlayTarget(path)>>)
    /\ Raise("PlaysoundException")
    /\ UNCHANGED <<rss, pages, result, cwd, fs, articles, found_article, counter, title,
                   description, body, inputs, request, choices, path, stdout>>

\* playsound(self.path.name) plays the file it finds there.
PlayAudio ==
    /\ pc = "play_audio"
    /\ FileAt(PlayTarget(path)) # {}
    /\ log' = Append(log, <<"play", PlayTarget(path)>>)
    /\ pc' = "return"
    /\ UNCHANGED <<rss, pages, result, cwd, fs, err, articles, found_article, counter, title,
                   description, body, inputs, request, choices, path, stdout>>

\* main returns and the process exits.
MainReturns ==
    /\ pc = "return"
    /\ pc' = "done"
    /\ UNCHANGED <<rss, pages, result, cwd, fs, err, articles, found_article, counter,
                   title, description, body, inputs, request, choices, path, stdout, log>>

Next ==
    \/ FeedRaises
    \/ FeedFetched
    \/ ArticleIndexError
    \/ ArticleNoLink
    \/ ArticleFetchRaises
    \/ ArticleNoBody
    \/ ArticleFound
    \/ ReturnRaises
    \/ ReturnHeadlines
    \/ NewAIChat
    \/ AddTitle
    \/ AddDescription
    \/ AddBody
    \/ RunAIRaises
    \/ RunAI
    \/ NewTTS
    \/ CreateAudioIndexError
    \/ CreateAudioRaises
    \/ CreateAudio
    \/ Sleep
    \/ PlayAudioRaises
    \/ PlayAudio
    \/ MainReturns

Spec == Init /\ [][Next]_vars

\* ---------------------------------------------------------------- vocabulary of the claims
\* The calls of one kind made so far, in order.
CallsOf(kind) == SelectSeq(log, LAMBDA e : e[1] = kind)
Calls(kind) == Len(CallsOf(kind))
\* The indices (1-based) of the items whose page was requested, in order.
PageLog == [n \in 1..Calls("page") |-> CallsOf("page")[n][2]]

\* Item i has a link and its page holds an <article> element.
HasBody(i) == rss[i].link # None /\ ~pages[i].raises /\ pages[i].article # None
\* Item i has a link and requesting its page raises.
Unreachable(i) == rss[i].link # None /\ pages[i].raises
\* Item i was tried and skipped by the handler: no link, or a page without <article>.
Skipped(i) == rss[i].link = None \/ (~pages[i].raises /\ pages[i].article = None)
NoItemHasBody == \A i \in 1..Len(rss) : ~HasBody(i)
\* k is the first item with a body; the items before it are unreachable or bodyless.
FirstWithBody(k) == k \in 1..Len(rss) /\ HasBody(k) /\ \A i \in 1..(k - 1) : ~HasBody(i)

\* The feed request raised.
FeedFailed == pc = "failed" /\ log = << <<"feed">> >> /\ err = "RequestException"
\* The feed request returned and get_headlines is over: it returned or raised.
ResolutionOver == pc \notin {"get_headlines", "loop"} /\ ~FeedFailed
\* get_headlines raised because the list ran out: the code's IndexError.
ListExhausted == pc = "failed" /\ err = "IndexError" /\ result = None /\ counter = Len(articles)

\* ---------------------------------------------------------------- C1
\* C1 (as claimed): when items 1..k-1 are unreachable or bodyless and item k
\* has a body, get_headlines returns item 1's title and description with item
\* k's body.  (Item 1 is taken to have both tags, so that "item 1's fields"
\* exist.)
C1_FirstBodyWithFirstHeadline ==
    \A k \in 1..Len(rss) :
        (/\ ResolutionOver
         /\ FirstWithBody(k)
         /\ rss[1].title # None /\ rss[1].description # None)
        => result = Some(<<Text(rss[1].title), Text(rss[1].description),
                           Text(pages[k].article)>>)

\* ---------------------------------------------------------------- C2
\* C2 (as claimed): when no item has a body, resolution ends in the error of
\* an exhausted list (NoArticleFoundError, which the code renders as the
\* IndexError of articles[counter]).
C2_ExhaustionFails ==
    (ResolutionOver /\ NoItemHasBody) => ListExhausted

\* C2 holds of the code when no page request raises: with every item skipped
\* by the handler, the loop runs off the list and the IndexError ends the run.
C2_WhenEveryItemIsSkipped ==
    (ResolutionOver /\ \A i \in 1..Len(rss) : Skipped(i)) => ListExhausted

\* The run always ends: a sequential program takes its next step.
FairSpec == Spec /\ WF_vars(Next)
C2_RunTerminates == <>(pc \in {"done", "failed"})

\* ---------------------------------------------------------------- C9
\* C9 (as claimed): the body get_headlines returns is never the empty string.
C9_BodyNeverEmpty ==
    result # None => Text(result)[3] # ""

\* ---------------------------------------------------------------- C7
\* C7 (as claimed): play_audio opens the file create_audio wrote, whatever the
\* working directory.
C7_PlaysWrittenPath ==
    \A n \in 1..Calls("play") : CallsOf("play")[n][2] = path

\* C1 holds of the code once "unreachable" is left out: when every item before
\* the first one with a body is skipped by the handler, the result is as claimed.
C1_WhenEarlierItemsAreSkipped ==
    \A k \in 1..Len(rss) :
        (/\ ResolutionOver
         /\ FirstWithBody(k)
         /\ \A i \in 1..(k - 1) : Skipped(i)
         /\ rss[1].title # None /\ rss[1].description # None)
        => result = Some(<<Text(rss[1].title), Text(rss[1].description),
                           Text(pages[k].article)>>)

\* ---------------------------------------------------------------- C3
\* What each component call leaves behind when it succeeded.
FeedSucceeded == Calls("feed") = 1 /\ ~FeedFailed /\ articles = rss
ResolutionSucceeded == result # None
SummarySucceeded == Calls("chat") = 1 /\ choices # <<>>
SynthesisSucceeded == Calls("speech") = 1 /\ path # <<>> /\ FileAt(path) # {}

\* C3: a failed component call ends the run (nothing can follow a failure),
\* a component is invoked only when every earlier one succeeded, and when no
\* item has a body neither the summarizer nor create_audio nor play_audio is
\* ever invoked.
C3_FailureAbortsRun ==
    /\ pc = "failed" => (err # "" /\ ~ENABLED Next)
    /\ Calls("page") > 0 => FeedSucceeded
    /\ Calls("chat") > 0 => (FeedSucceeded /\ ResolutionSucceeded)
    /\ Calls("speech") > 0 => (ResolutionSucceeded /\ SummarySucceeded)
    /\ Calls("play") > 0 => (SummarySucceeded /\ SynthesisSucceeded)
    /\ NoItemHasBody => (Calls("chat") = 0 /\ Calls("speech") = 0 /\ Calls("play") = 0)

\* Two items, neither with a body: the run has aborted in get_headlines.
C3_Witness ==
    /\ Len(rss) = 2 /\ NoItemHasBody
    /\ pc = "failed" /\ err = "IndexError" /\ counter = 2
    /\ Calls("page") > 0

\* ---------------------------------------------------------------- C4
\* The request of run_ai has been sent (it returned or raised).
ChatSent == request # <<>>
Roles(msgs) == [n \in 1..Len(msgs) |-> msgs[n].role]

\* C4: the conversation run_ai sends is the system turn followed by exactly
\* three user turns, built from title, description and body in that order;
\* the same holds of AIChat.inputs from the moment run_ai is about to be
\* called, so no other add_input call has preceded it.
C4_ConversationShape ==
    (ChatSent \/ pc = "run_ai") =>
        LET msgs == IF ChatSent THEN request.messages ELSE inputs IN
        /\ Roles(msgs) = <<"system", "user", "user", "user">>
        /\ msgs[1] = AIChatInit[1]
        /\ <<msgs[2], msgs[3], msgs[4]>>
             = <<TitleTurn(Text(result)[1]), DescriptionTurn(Text(result)[2]),
                 BodyTurn(Text(result)[3])>>
        /\ inputs = msgs
        /\ Calls("chat") = (IF ChatSent THEN 1 ELSE 0)

\* The request was sent for an article whose title and body are empty strings.
C4_Witness ==
    /\ ChatSent
    /\ Text(result)[1] = "" /\ Text(result)[3] = ""
    /\ Len(request.messages) = 4

\* ---------------------------------------------------------------- C8
\* C8 (as claimed): the content of each user turn equals the field.
C8_TurnsEqualFields ==
    ChatSent =>
        /\ request.messages[2].content = title
        /\ request.messages[3].content = description
        /\ request.messages[4].content = body

\* C8 (amended): the content of each user turn is a fixed label followed by
\* the field verbatim, the fields being those get_headlines returned.
C8_TurnsAreLabelPlusField ==
    ChatSent =>
        /\ request.messages[2].content = "Article Title: " \o title
        /\ request.messages[3].content = "Article Description: " \o description
        /\ request.messages[4].content = "Article Body: " \o body
        /\ <<title, description, body>> = Text(result)

\* The request was sent for an article with a non-empty title, description and body.
C8_Witness ==
    /\ ChatSent
    /\ title = "A" /\ description = "D" /\ body = "B"
    /\ request.messages[2].content = "Article Title: A"

\* ---------------------------------------------------------------- C5
\* The run is over: main returned or an exception left it.
RunOver == pc \in {"done", "failed"}
\* create_audio was called and raised.
SynthesisFailed ==
    /\ pc = "failed" /\ err = "APIError"
    /\ Calls("speech") = 1 /\ log[Len(log)][1] = "speech"

\* C5: playback is attempted at most once, only after create_audio has
\* written the speech of the summary it was given, never after a failed
\* synthesis, and exactly once in every finished run whose synthesis succeeded.
C5_PlaybackOnceAfterSynthesis ==
    /\ Calls("play") <= 1
    /\ Calls("play") = 1 =>
          /\ SynthesisSucceeded
          /\ FileAt(path) = {<<path[1], path[2], CallsOf("speech")[1][2]>>}
          /\ log[Len(log)][1] = "play" /\ log[Len(log) - 1][1] = "speech"
    /\ SynthesisFailed => Calls("play") = 0
    /\ (RunOver /\ SynthesisSucceeded) => Calls("play") = 1

\* A finished run in which the speech was created and playback attempted.
C5_Witness ==
    /\ pc = "done"
    /\ SynthesisSucceeded
    /\ Calls("play") = 1

\* ---------------------------------------------------------------- C6
\* The stage of the pipeline a position of main belongs to.
Stage ==
    CASE pc = "get_headlines" -> "Init"
      [] pc = "loop" -> "Fetched"
      [] pc \in {"ai_chat", "add_title", "add_description", "add_body", "run_ai"} -> "Resolved"
      [] pc \in {"tts", "create_audio", "sleep", "play_audio"} -> "Summarized"
      [] pc = "return" -> "Spoken"
      [] pc = "done" -> "Done"
      [] pc = "failed" -> "Failed"
StageOrder == <<"Init", "Fetched", "Resolved", "Summarized", "Spoken", "Done">>
Follows(a, b) == \E n \in 1..(Len(StageOrder) - 1) : StageOrder[n] = a /\ StageOrder[n + 1] = b

\* C6: every step stays in its stage, moves to the next stage or fails (no
\* stage is skipped or repeated); a stage is entered only when the call of the
\* previous one has been made; and a run that ends in Done has fetched the
\* feed, called the summarizer and called the synthesizer exactly once each,
\* the synthesizer with the text of the first returned completion.
C6_LinearPipeline ==
    /\ [][Stage' = Stage \/ Follows(Stage, Stage') \/ Stage' = "Failed"]_vars
    /\ [](Stage \in {"Fetched", "Resolved", "Summarized", "Spoken", "Done"} => Calls("feed") = 1)
    /\ [](Stage \in {"Summarized", "Spoken", "Done"} => Calls("chat") = 1)
    /\ [](Stage \in {"Spoken", "Done"} => (Calls("speech") = 1 /\ Calls("play") = 1))
    /\ [](Stage = "Done" =>
            /\ <<Calls("feed"), Calls("chat"), Calls("speech")>> = <<1, 1, 1>>
            /\ CallsOf("speech")[1][2] = choices[1])

\* A successful run whose response held two different completions.
C6_Witness ==
    /\ pc = "done"
    /\ Len(choices) = 2 /\ choices[1] # choices[2]
    /\ Calls("speech") = 1

\* ---------------------------------------------------------------- C10
\* The request of the page of the current item raised.
PageFailed ==
    /\ pc = "failed" /\ err = "RequestException"
    /\ Len(log) > 1 /\ log[Len(log)][1] = "page"
\* The number of items the loop has dealt with: those it skipped, and the one
\* it stopped at.
Tried == counter + (IF found_article \/ PageFailed THEN 1 ELSE 0)
FeedOnce == Calls("feed") <= 1 /\ (pc # "get_headlines" => Calls("feed") = 1)
Increasing(q) == \A m, n \in 1..Len(q) : m < n => q[m] < q[n]

\* C10 (as claimed): the pages fetched are those of items 1..n, in that
\* order, each once, each but the last found without a body element, and the
\* feed is fetched exactly once.
C10_PagesArePrefixOfFeed ==
    /\ \A n \in 1..Len(PageLog) : PageLog[n] = n
    /\ \A n \in 1..(Len(PageLog) - 1) : ~pages[n].raises /\ pages[n].article = None
    /\ FeedOnce

\* C10 (amended): the pages fetched are, in feed order and each once, those
\* of the items with a link among the items tried so far, which form a prefix
\* of the feed; an item is tried only after every earlier item was skipped
\* (no link, or a page fetched and found without a body element); nothing is
\* fetched after the winning item; the feed is fetched exactly once.
C10_PagesFollowFeedOrder ==
    /\ Tried <= Len(rss)
    /\ Increasing(PageLog)
    /\ {PageLog[n] : n \in 1..Len(PageLog)} = {i \in 1..Tried : rss[i].link # None}
    /\ \A i \in 1..Tried : (i < Tried \/ ~(found_article \/ PageFailed)) => Skipped(i)
    /\ found_article => (HasBody(Tried) /\ PageLog[Len(PageLog)] = Tried)
    /\ FeedOnce

\* The first item has no link, the second has one and its page was fetched.
C10_Witness ==
    /\ Len(rss) = 2 /\ rss[1].link = None
    /\ PageLog = <<2>>
    /\ found_article

====
